---- MODULE Spec2Model ----
(***************************************************************************)
(* BigInt: a signed integer of unbounded precision kept in a carrier, a    *)
(* vector of u32 words, most significant word first, read in two's         *)
(* complement (src/assignments/assignment09/bigint.rs).                    *)
(*                                                                         *)
(* A u32 word is written <<hi, lo>>, its two 16-bit halves, so that every  *)
(* number the model computes with stays far below 2^31: 32-bit wrapping    *)
(* arithmetic is carried out on the halves, exactly, modulo 2^32.          *)
(* A BigInt is modelled by its carrier, a sequence of such words.          *)
(*                                                                         *)
(* MockStorage: files with sizes under a capacity                          *)
(* (src/assignments/assignment11/mock_storage.rs), and NodeHandle: nodes   *)
(* with directed edges (src/assignments/assignment11/graph.rs).  Each of   *)
(* the three programs has its own specification; the other two are at      *)
(* rest in it.                                                             *)
(***************************************************************************)
EXTENDS Integers, Sequences, FiniteSets, TLC

VARIABLES
    held,       \* the BigInt the caller holds: <<>> (none) or <<carrier>>
    call,       \* the last call: its name, its self and its arguments
    panicked,   \* an assertion failed or an overflow check fired: the program halted
    text,       \* the characters the last formatting of a BigInt wrote
    files,      \* MockStorage::files: the size of every stored file, by name
    capacity,   \* MockStorage::capacity
    overflow_checks,    \* the build panics on integer overflow (debug) or wraps (release)
    storage_call,       \* the last call on the storage and what it returned
    storage_panicked,   \* an overflow check fired in a call on the storage
    nodes,      \* the nodes created so far, in order of creation: their id and adjacent
    edges,      \* the pairs <<a, b>> of nodes for which a.add_edge(b) was called and
                \* neither a.remove_edge(b) nor a.clear_edges() since
    graph_call, \* the last call on a node or on the subgraph and what it returned
    handles,    \* SubGraph::handles: the node of the subgraph kept under every id
    node_set,   \* SubGraph::node_set
    source,     \* the elements of the iterator handed to my_enumerate
    iter,       \* Enumerate::iter: the elements the underlying iterator has yet to yield
    cur,        \* Enumerate::cur
    yielded,    \* what the calls of Enumerate::next returned so far, in order
    head,       \* SinglyLinkedList::head: <<>> (None) or <<node>>, a node being
                \* [value, next] with next <<>> or <<node>>
    reference,  \* the sequence the pushes and pops on the list make, applied to a sequence
    list_call   \* the last call on the list and what it returned

bigintVars == <<held, call, panicked, text>>
storageVars == <<files, capacity, overflow_checks, storage_call, storage_panicked>>
graphVars == <<nodes, edges, graph_call>>
subgraphVars == <<handles, node_set>>
enumerateVars == <<source, iter, cur, yielded>>
listVars == <<head, reference, list_call>>
vars == <<bigintVars, storageVars, graphVars, subgraphVars, enumerateVars, listVars>>

----------------------------------------------------------------------------
(* Bounds of the model. *)

\* Longest carrier handed to new_large.
MaxLen == 3

\* Largest small size of an uploaded file; usize::MAX is uploaded too.
MaxSize == 2

\* Largest small capacity of a storage; a storage of capacity usize::MAX is created too.
MaxCapacity == 2

\* Most nodes created.
MaxNodes == 3

\* Largest value of a node; the values are 1..MaxValue.
MaxValue == 2

\* Most edges asked for and not removed at a time.
MaxEdges == 3

\* Most elements of an iterator handed to my_enumerate.
MaxItems == 4

\* Most elements of a list.
MaxList == 3

----------------------------------------------------------------------------
(* u32 words. *)

Half == 2 ^ 16

Zero == <<0, 0>>
One == <<0, 1>>
U32_MAX == <<Half - 1, Half - 1>>
I32_MAX == <<Half \div 2 - 1, Half - 1>>
SIGN_MASK == <<Half \div 2, 0>>

\* a.wrapping_add(b)
wrapping_add(a, b) ==
    LET lo == a[2] + b[2]
        hi == a[1] + b[1] + (lo \div Half)
    IN  <<hi % Half, lo % Half>>

\* a < b on u32
lt(a, b) == a[1] < b[1] \/ (a[1] = b[1] /\ a[2] < b[2])

\* !x
not(x) == <<Half - 1 - x[1], Half - 1 - x[2]>>

\* x & SIGN_MASK: bit 31 of x alone
and_sign_mask(x) == IF x[1] >= SIGN_MASK[1] THEN SIGN_MASK ELSE Zero

Max(m, n) == IF m >= n THEN m ELSE n

----------------------------------------------------------------------------
(* Construction. *)

new(n) == <<n>>

\* new_large without its assertion.
new_large_unchecked(carrier) == TRUE

\* assert_false!(carrier.is_empty()) passes
new_large_ok(carrier) == ~(carrier = <<>>)

new_large(carrier) == carrier

----------------------------------------------------------------------------
(* Helper methods. *)

\* sign_extension taking the missing words as len.saturating_sub(self.carrier.len()).
sign_extension_unchecked(self, len) == TRUE

\* len - self.carrier.len() does not underflow.  When it does, a build with
\* overflow checks panics at the subtraction, and a build without them asks
\* vec! for 2^64 - (self.carrier.len() - len) words, more than an allocation
\* may hold, and panics with a capacity overflow: both halt.
sign_extension_ok(self, len) == len >= Len(self)

\* sign_extension that fills with zero words whatever the sign.
sign_extension_zero(self, len) == [i \in 1..(len - Len(self)) |-> Zero] \o self

sign_extension(self, len) ==
    LET sign_extended ==
            IF and_sign_mask(self[1]) = Zero
            THEN [i \in 1..(len - Len(self)) |-> Zero]
            ELSE [i \in 1..(len - Len(self)) |-> U32_MAX]
    IN  sign_extended \o self

\* The loop of truncate without the test of the next word's top bit: it stops at
\* the first word that is not the sign word and keeps the sign word before it.
RECURSIVE truncate_scan_stop(_, _, _, _)
truncate_scan_stop(carrier, sign, i, index) ==
    IF i >= Len(carrier) THEN index
    ELSE IF carrier[i + 1] = sign THEN truncate_scan_stop(carrier, sign, i + 1, i)
         ELSE index

\* The loop of truncate dropping every leading sign word, whatever the top bit
\* of the word that follows.
RECURSIVE truncate_scan_naive(_, _, _, _)
truncate_scan_naive(carrier, sign, i, index) ==
    IF i >= Len(carrier) THEN index
    ELSE IF carrier[i + 1] = sign THEN truncate_scan_naive(carrier, sign, i + 1, i)
         ELSE i

\* The loop of truncate leaving after its first turn: at most one word is dropped.
truncate_scan_once(carrier, sign, i, index) ==
    IF i >= Len(carrier) THEN index
    ELSE IF and_sign_mask(carrier[i + 1]) = and_sign_mask(sign) THEN i
         ELSE index

\* The for loop of truncate from position i (0-based) on; the index it ends with.
RECURSIVE truncate_scan(_, _, _, _)
truncate_scan(carrier, sign, i, index) ==
    IF i >= Len(carrier) THEN index
    ELSE LET value == carrier[i + 1] IN
         IF value = sign THEN truncate_scan(carrier, sign, i + 1, i)
         ELSE IF and_sign_mask(value) = and_sign_mask(sign) THEN i
              ELSE index

\* truncate that returns the carrier as it is.
truncate_none(self) == self

truncate(self) ==
    LET carrier == self IN
    IF Len(carrier) <= 1 THEN carrier
    ELSE LET sign == carrier[1] IN
         IF sign # Zero /\ sign # U32_MAX THEN carrier
         ELSE LET index == truncate_scan(carrier, sign, 1, 0)
              IN  SubSeq(carrier, index + 1, Len(carrier))

----------------------------------------------------------------------------
(* Addition. *)

\* One turn of the loop of add with <= for < in the test for a carry.
add_word_le(a, b, carry) ==
    LET sum == wrapping_add(wrapping_add(a, b), <<0, carry>>)
    IN  [sum |-> sum, carry |-> IF ~lt(a, sum) \/ ~lt(b, sum) THEN 1 ELSE 0]

\* One turn of the loop of add testing the sum against a alone.
add_word_a_only(a, b, carry) ==
    LET sum == wrapping_add(wrapping_add(a, b), <<0, carry>>)
    IN  [sum |-> sum, carry |-> IF lt(sum, a) THEN 1 ELSE 0]

\* One turn of the loop of add: the sum word and the carry it leaves.
add_word(a, b, carry) ==
    LET sum == wrapping_add(wrapping_add(a, b), <<0, carry>>)
    IN  [sum |-> sum, carry |-> IF lt(sum, a) \/ lt(sum, b) THEN 1 ELSE 0]

\* The loop of add over the reversed carriers, from the k-th word from the end:
\* the words pushed (least significant first) and the last carry.
RECURSIVE add_loop(_, _, _, _, _)
add_loop(a, b, k, carry, result) ==
    IF k > Len(a) \/ k > Len(b) THEN [result |-> result, carry |-> carry]
    ELSE LET w == add_word(a[Len(a) + 1 - k], b[Len(b) + 1 - k], carry)
         IN  add_loop(a, b, k + 1, w.carry, Append(result, w.sum))

reverse(s) == [i \in 1..Len(s) |-> s[Len(s) + 1 - i]]

\* add_result without the guard word: the operands extended to len, not len + 1.
add_result_no_guard(self, rhs) ==
    LET len == Max(Len(self), Len(rhs))
        done == add_loop(sign_extension(self, len), sign_extension(rhs, len), 1, 0, <<>>)
        result == IF done.carry > 0 /\ Len(done.result) > 0
                  THEN SubSeq(done.result, 1, Len(done.result) - 1)
                  ELSE done.result
    IN  reverse(result)

\* add_result that pushes a last carry as one more word instead of popping.
add_result_push_carry(self, rhs) ==
    LET len == Max(Len(self), Len(rhs))
        done == add_loop(sign_extension(self, len + 1), sign_extension(rhs, len + 1), 1, 0, <<>>)
        result == IF done.carry > 0 THEN Append(done.result, One) ELSE done.result
    IN  reverse(result)

\* The vector add hands to new_large: the loop, the pop on a last carry, the reverse.
add_result(self, rhs) ==
    LET len == Max(Len(self), Len(rhs))
        self_extended == sign_extension(self, len + 1)
        rhs_extended == sign_extension(rhs, len + 1)
        done == add_loop(self_extended, rhs_extended, 1, 0, <<>>)
        result == IF done.carry > 0 /\ Len(done.result) > 0
                  THEN SubSeq(done.result, 1, Len(done.result) - 1)
                  ELSE done.result
    IN  reverse(result)

add_ok(self, rhs) == new_large_ok(add_result(self, rhs))

add(self, rhs) == truncate(new_large(add_result(self, rhs)))

----------------------------------------------------------------------------
(* Negation and subtraction. *)

complement(self) == [i \in 1..Len(self) |-> not(self[i])]

two_complement_ok(self) ==
    new_large_ok(complement(self)) /\ add_ok(new_large(complement(self)), new(One))

\* two_complement without the addition of one.
two_complement_no_inc(self) == truncate(new_large(complement(self)))

two_complement(self) == add(new_large(complement(self)), new(One))

sub_ok(self, rhs) == two_complement_ok(rhs) /\ add_ok(self, two_complement(rhs))

sub(self, rhs) == add(self, two_complement(rhs))

----------------------------------------------------------------------------
(* Display. *)

HexDigits == <<"0", "1", "2", "3", "4", "5", "6", "7",
               "8", "9", "a", "b", "c", "d", "e", "f">>

\* The width of {:08x}.
HexWidth == 8

\* The sixteen bits of a half as four hexadecimal digits, most significant first.
nibbles(h) == <<h \div 4096, (h \div 256) % 16, (h \div 16) % 16, h % 16>>

RECURSIVE strip_zeros(_)
strip_zeros(digits) ==
    IF Len(digits) > 1 /\ digits[1] = 0 THEN strip_zeros(Tail(digits)) ELSE digits

\* {:x}: the digits of the word, without leading zeros.
lower_hex(w) ==
    LET digits == strip_zeros(nibbles(w[1]) \o nibbles(w[2]))
    IN  [i \in 1..Len(digits) |-> HexDigits[digits[i] + 1]]

\* {:x} for {:08x}: the word written without padding.
fmt_word_unpadded(w) == lower_hex(w)

\* {:08x}: the digits of the word, padded on the left with "0" to HexWidth.
fmt_word(w) ==
    LET digits == lower_hex(w)
    IN  [i \in 1..(HexWidth - Len(digits)) |-> "0"] \o digits

\* The write! of every word of the carrier in turn, from position i on.
RECURSIVE fmt_from(_, _)
fmt_from(carrier, i) ==
    IF i > Len(carrier) THEN <<>>
    ELSE fmt_word(carrier[i]) \o fmt_from(carrier, i + 1)

fmt(self) == fmt_from(self, 1)

----------------------------------------------------------------------------
(* The integer a carrier represents.                                       *)
(* An integer is [neg, mag]: its sign and its magnitude, a natural number  *)
(* written in base 2^16, least significant digit first, without leading    *)
(* zeros (zero is [neg |-> FALSE, mag |-> <<>>]).  The carrier             *)
(* [44, 345, 3] represents 44 * (2^32)^2 + 345 * 2^32 + 3, and             *)
(* [u32::MAX - 5, u32::MAX - 7] represents -(5 * 2^32 + 8).                *)

Digit(x, i) == IF i <= Len(x) THEN x[i] ELSE 0

RECURSIVE Strip(_)
Strip(x) ==
    IF x = <<>> THEN x
    ELSE IF x[Len(x)] = 0 THEN Strip(SubSeq(x, 1, Len(x) - 1)) ELSE x

RECURSIVE NatAddFrom(_, _, _, _)
NatAddFrom(x, y, i, c) ==
    IF i > Max(Len(x), Len(y)) THEN (IF c = 0 THEN <<>> ELSE <<c>>)
    ELSE LET s == Digit(x, i) + Digit(y, i) + c
         IN  <<s % Half>> \o NatAddFrom(x, y, i + 1, s \div Half)

NatAdd(x, y) == Strip(NatAddFrom(x, y, 1, 0))

\* x - y for x >= y
RECURSIVE NatSubFrom(_, _, _, _)
NatSubFrom(x, y, i, borrow) ==
    IF i > Len(x) THEN <<>>
    ELSE LET d == Digit(x, i) - Digit(y, i) - borrow
         IN  IF d < 0 THEN <<d + Half>> \o NatSubFrom(x, y, i + 1, 1)
             ELSE <<d>> \o NatSubFrom(x, y, i + 1, 0)

NatSub(x, y) == Strip(NatSubFrom(x, y, 1, 0))

\* x < y, for x and y without leading zeros
RECURSIVE NatLessFrom(_, _, _)
NatLessFrom(x, y, i) ==
    IF i = 0 THEN FALSE
    ELSE IF x[i] # y[i] THEN x[i] < y[i]
    ELSE NatLessFrom(x, y, i - 1)

NatLess(x, y) ==
    Len(x) < Len(y) \/ (Len(x) = Len(y) /\ NatLessFrom(x, y, Len(x)))

\* 2^(32 n)
Pow32(n) == [i \in 1..(2 * n + 1) |-> IF i = 2 * n + 1 THEN 1 ELSE 0]

\* The unsigned numeral U of a carrier, its digits least significant first.
Unsigned(carrier) ==
    Strip([i \in 1..(2 * Len(carrier)) |->
              LET w == carrier[Len(carrier) - ((i - 1) \div 2)]
              IN  IF i % 2 = 1 THEN w[2] ELSE w[1]])

IsNegative(carrier) == carrier[1][1] >= Half \div 2

\* U when the top bit of the first word is 0, U - 2^(32 n) when it is 1.
Value(carrier) ==
    IF IsNegative(carrier)
    THEN [neg |-> TRUE, mag |-> NatSub(Pow32(Len(carrier)), Unsigned(carrier))]
    ELSE [neg |-> FALSE, mag |-> Unsigned(carrier)]

IntZero == [neg |-> FALSE, mag |-> <<>>]

IntNeg(p) == IF p.mag = <<>> THEN p ELSE [neg |-> ~p.neg, mag |-> p.mag]

IntAdd(p, q) ==
    IF p.neg = q.neg THEN [neg |-> p.neg, mag |-> NatAdd(p.mag, q.mag)]
    ELSE IF p.mag = q.mag THEN IntZero
    ELSE IF NatLess(p.mag, q.mag) THEN [neg |-> q.neg, mag |-> NatSub(q.mag, p.mag)]
    ELSE [neg |-> p.neg, mag |-> NatSub(p.mag, q.mag)]

IntSub(p, q) == IntAdd(p, IntNeg(q))

\* -2^(32 n - 1) <= p < 2^(32 n - 1): p has a two's complement form of n words
FitsIn(p, n) ==
    LET bound == [i \in 1..(2 * n) |-> IF i = 2 * n THEN Half \div 2 ELSE 0]
    IN  IF p.neg THEN ~NatLess(bound, p.mag) ELSE NatLess(p.mag, bound)

----------------------------------------------------------------------------
(* The inputs the calls are tried on. *)

\* The words handed to new: the two sign-fill words, 1, and the largest word
\* with the top bit clear and the smallest with it set.
Words == {Zero, One, I32_MAX, SIGN_MASK, U32_MAX}

\* The words of the carriers handed to new_large.
LargeWords == {Zero, I32_MAX, SIGN_MASK, U32_MAX}

\* The carriers named in the documentation of BigInt.
Examples == {<<<<0, 44>>, <<0, 345>>, <<0, 3>>>>,
             <<<<Half - 1, Half - 6>>, <<Half - 1, Half - 8>>>>}

Carriers == UNION {[1..n -> LargeWords] : n \in 1..MaxLen}

LargeInputs == Carriers \cup Examples

\* The right operands of add and sub: values built by new or by new_large.
RhsInputs == {new(n) : n \in Words} \cup Carriers

NoCall == [op |-> "none", self |-> <<>>, arg |-> <<>>, len |-> 0]

NoStorageCall ==
    [op |-> "none", name |-> "", size |-> <<>>, before |-> [name \in {} |-> <<>>],
     result |-> [kind |-> "none", value |-> <<>>]]

NoListCall == [op |-> "new", value |-> "", before |-> <<>>, rc |-> <<>>]

NoGraphCall == [op |-> "none", self |-> 0, to |-> 0, existed |-> FALSE, result |-> <<>>]

----------------------------------------------------------------------------
(* The calls. *)

Init ==
    /\ held = <<>>
    /\ call = NoCall
    /\ panicked = FALSE
    /\ text = <<>>
    /\ files = [name \in {} |-> <<>>]
    /\ capacity = <<>>
    /\ overflow_checks = FALSE
    /\ storage_call = NoStorageCall
    /\ storage_panicked = FALSE
    /\ nodes = <<>>
    /\ edges = {}
    /\ graph_call = NoGraphCall
    /\ handles = [id \in {} |-> 0]
    /\ node_set = {}
    /\ source = <<>>
    /\ iter = <<>>
    /\ cur = 0
    /\ yielded = <<>>
    /\ head = <<>>
    /\ reference = <<>>
    /\ list_call = NoListCall

\* The caller holds nothing yet and the program has not halted.
Constructible == ~panicked /\ held = <<>>

\* The caller holds a constructed value, on which it calls a method.  new_large
\* constructs every carrier of up to MaxLen words over LargeWords, canonical or
\* not, so a call on such a result of an earlier call is one of these calls.
Callable == ~panicked /\ held # <<>> /\ call.op \in {"new", "new_large"}

\* let v = BigInt::new(n)
New ==
    /\ Constructible
    /\ \E n \in Words :
        /\ held' = <<new(n)>>
        /\ call' = [op |-> "new", self |-> <<>>, arg |-> <<n>>, len |-> 0]
    /\ UNCHANGED panicked
    /\ UNCHANGED <<text, storageVars, graphVars, subgraphVars, enumerateVars, listVars>>

\* let v = BigInt::new_large(carrier)
NewLarge ==
    /\ Constructible
    /\ \E carrier \in LargeInputs \cup {<<>>} :
        /\ call' = [op |-> "new_large", self |-> <<>>, arg |-> carrier, len |-> 0]
        /\ IF new_large_ok(carrier)
           THEN held' = <<new_large(carrier)>> /\ UNCHANGED panicked
           ELSE held' = <<>> /\ panicked' = TRUE
    /\ UNCHANGED <<text, storageVars, graphVars, subgraphVars, enumerateVars, listVars>>

\* v = v.sign_extension(len)
SignExtension ==
    /\ Callable
    /\ \E len \in 0..(MaxLen + 1) :
        /\ call' = [op |-> "sign_extension", self |-> held[1], arg |-> <<>>, len |-> len]
        /\ IF sign_extension_ok(held[1], len)
           THEN held' = <<sign_extension(held[1], len)>> /\ UNCHANGED panicked
           ELSE held' = <<>> /\ panicked' = TRUE
    /\ UNCHANGED <<text, storageVars, graphVars, subgraphVars, enumerateVars, listVars>>

\* v = v.two_complement()
TwoComplement ==
    /\ Callable
    /\ call' = [op |-> "two_complement", self |-> held[1], arg |-> <<>>, len |-> 0]
    /\ IF two_complement_ok(held[1])
       THEN held' = <<two_complement(held[1])>> /\ UNCHANGED panicked
       ELSE held' = <<>> /\ panicked' = TRUE
    /\ UNCHANGED <<text, storageVars, graphVars, subgraphVars, enumerateVars, listVars>>

\* v = v.truncate()
Truncate ==
    /\ Callable
    /\ call' = [op |-> "truncate", self |-> held[1], arg |-> <<>>, len |-> 0]
    /\ held' = <<truncate(held[1])>>
    /\ UNCHANGED panicked
    /\ UNCHANGED <<text, storageVars, graphVars, subgraphVars, enumerateVars, listVars>>

\* v = v + rhs
Add ==
    /\ Callable
    /\ \E rhs \in RhsInputs :
        /\ call' = [op |-> "add", self |-> held[1], arg |-> rhs, len |-> 0]
        /\ IF add_ok(held[1], rhs)
           THEN held' = <<add(held[1], rhs)>> /\ UNCHANGED panicked
           ELSE held' = <<>> /\ panicked' = TRUE
    /\ UNCHANGED <<text, storageVars, graphVars, subgraphVars, enumerateVars, listVars>>

\* v = v - rhs
Sub ==
    /\ Callable
    /\ \E rhs \in RhsInputs :
        /\ call' = [op |-> "sub", self |-> held[1], arg |-> rhs, len |-> 0]
        /\ IF sub_ok(held[1], rhs)
           THEN held' = <<sub(held[1], rhs)>> /\ UNCHANGED panicked
           ELSE held' = <<>> /\ panicked' = TRUE
    /\ UNCHANGED <<text, storageVars, graphVars, subgraphVars, enumerateVars, listVars>>

\* v.to_string()
Display ==
    /\ Callable
    /\ call' = [op |-> "fmt", self |-> held[1], arg |-> <<>>, len |-> 0]
    /\ text' = fmt(held[1])
    /\ UNCHANGED <<held, panicked, storageVars, graphVars, subgraphVars, enumerateVars, listVars>>

Next ==
    \/ New
    \/ NewLarge
    \/ SignExtension
    \/ TwoComplement
    \/ Truncate
    \/ Add
    \/ Sub
    \/ Display

Spec == Init /\ [][Next]_vars

----------------------------------------------------------------------------
(* What the claims speak of. *)

\* The last call was op, it returned, and held is what it returned.
Returned(op) == call.op = op /\ ~panicked /\ held # <<>>

TopBit(w) == and_sign_mask(w) # Zero

\* One word, or a leading word that is no sign-fill word, or a sign-fill leading
\* word followed by a word whose top bit differs from its own.
Canonical(carrier) ==
    \/ Len(carrier) = 1
    \/ carrier[1] \notin {Zero, U32_MAX}
    \/ carrier[1] \in {Zero, U32_MAX} /\ TopBit(carrier[2]) # TopBit(carrier[1])

\* The loop of add ended with a carry: the most significant word was removed.
Popped(self, rhs) == Len(add_result(self, rhs)) = Max(Len(self), Len(rhs))

----------------------------------------------------------------------------
(* C1: for all non-empty carriers a and b, add(a, b) represents exactly    *)
(* the integer value(a) + value(b).                                        *)
C1_AddExact ==
    Returned("add") => Value(held[1]) = IntAdd(Value(call.self), Value(call.arg))

(* C2: for all non-empty carriers a and b, sub(a, b) represents exactly    *)
(* value(a) - value(b); in particular sub(v, new(0)) represents value(v).  *)
C2_SubExact ==
    Returned("sub") => Value(held[1]) = IntSub(Value(call.self), Value(call.arg))

(* C3: the results of add(a, b) and sub(a, b) are canonical: one word, or  *)
(* a leading word that is not a sign-fill word, or a sign-fill leading     *)
(* word and a second word whose top bit differs from the leading word's.   *)
C3_ResultsCanonical ==
    /\ call.op \in {"add", "sub"} => ~panicked /\ held # <<>>
    /\ Returned("add") \/ Returned("sub") => Canonical(held[1])

\* add returned a result of several words that truncate had shortened.
C3_Witness ==
    /\ Returned("add")
    /\ Len(held[1]) >= 2
    /\ held[1][1] \in {Zero, U32_MAX}
    /\ Len(held[1]) < Len(add_result(call.self, call.arg))

(* C4: for every non-empty carrier v, truncate(v) represents the same      *)
(* integer as v.                                                           *)
C4_TruncateKeepsValue ==
    Returned("truncate") => Value(held[1]) = Value(call.self)

\* truncate removed words from a negative value and from a carrier whose sign
\* word is followed by a word with the other top bit.
C4_Witness ==
    /\ Returned("truncate")
    /\ Len(held[1]) = 2 /\ Len(call.self) = 3
    /\ held[1][1] = U32_MAX /\ ~TopBit(held[1][2])

(* C5: for every non-empty carrier v, truncate(v) is the shortest          *)
(* representation of value(v): the integer has no two's complement form of *)
(* fewer words, and removing the leading word of truncate(v) changes the   *)
(* represented value.                                                      *)
C5_TruncateShortest ==
    Returned("truncate") =>
        /\ \A n \in 1..(Len(held[1]) - 1) : ~FitsIn(Value(call.self), n)
        /\ Len(held[1]) > 1 => Value(Tail(held[1])) # Value(call.self)

\* truncate shortened a carrier and more than one word was left.
C5_Witness ==
    /\ Returned("truncate")
    /\ Len(call.self) = 3 /\ Len(held[1]) = 2

(* C6: for every non-empty v and every L >= len(v), sign_extension(v, L)   *)
(* has exactly L words, its last len(v) words are the words of v, its      *)
(* first L - len(v) words are all 0x00000000 when the top bit of v's       *)
(* leading word is 0 and all 0xFFFFFFFF when it is 1, and it represents    *)
(* the same integer as v.                                                  *)
C6_SignExtension ==
    call.op = "sign_extension" /\ call.len >= Len(call.self) =>
        /\ ~panicked /\ held # <<>>
        /\ Len(held[1]) = call.len
        /\ SubSeq(held[1], call.len - Len(call.self) + 1, call.len) = call.self
        /\ \A i \in 1..(call.len - Len(call.self)) :
               held[1][i] = IF TopBit(call.self[1]) THEN U32_MAX ELSE Zero
        /\ Value(held[1]) = Value(call.self)

\* A negative value was extended by two words.
C6_Witness ==
    /\ Returned("sign_extension")
    /\ TopBit(call.self[1])
    /\ call.len = Len(call.self) + 2

(* C7: new_large called with an empty word sequence fails fatally and      *)
(* produces no BigInt; new_large with a non-empty sequence and new with    *)
(* any word always succeed.                                                *)
C7_Construction ==
    /\ call.op = "new_large" /\ call.arg = <<>> => panicked /\ held = <<>>
    /\ call.op = "new_large" /\ call.arg # <<>> => ~panicked /\ held = <<call.arg>>
    /\ call.op = "new" => ~panicked /\ held = <<call.arg>>

\* new_large was called with the empty sequence.
C7_Witness == call.op = "new_large" /\ call.arg = <<>> /\ panicked

(* C8: every BigInt reached by new, new_large (non-empty input),           *)
(* sign_extension (target >= length), two_complement, truncate, add and    *)
(* sub has a non-empty carrier; the removal of the most significant word   *)
(* at the end of add never leaves an empty result, and the new_large       *)
(* assertion inside add and two_complement never fires.                    *)
C8_NonEmptyCarrier ==
    /\ held # <<>> => held[1] # <<>>
    /\ call.op \in {"two_complement", "truncate", "add", "sub"} =>
           ~panicked /\ held # <<>>
    /\ call.op = "add" => add_result(call.self, call.arg) # <<>>
    /\ call.op = "sub" =>
           /\ two_complement_ok(call.arg)
           /\ add_result(call.self, two_complement(call.arg)) # <<>>
    /\ panicked =>
           \/ call.op = "new_large" /\ call.arg = <<>>
           \/ call.op = "sign_extension" /\ call.len < Len(call.self)

\* add removed the most significant word of two one-word operands and returned.
C8_Witness ==
    /\ Returned("add")
    /\ Len(call.self) = 1 /\ Len(call.arg) = 1
    /\ Popped(call.self, call.arg)

(* C9: addition never flips the sign through overflow: for a and b both    *)
(* non-negative add(a, b) is non-negative, for a and b both negative it is *)
(* negative; when the exact sum does not fit in max(len(a), len(b)) words  *)
(* the result has max(len(a), len(b)) + 1 words.                           *)
C9_NoSignFlip ==
    Returned("add") =>
        LET len == Max(Len(call.self), Len(call.arg))
            exact == IntAdd(Value(call.self), Value(call.arg))
        IN  /\ ~IsNegative(call.self) /\ ~IsNegative(call.arg) => ~IsNegative(held[1])
            /\ IsNegative(call.self) /\ IsNegative(call.arg) => IsNegative(held[1])
            /\ ~FitsIn(exact, len) => Len(held[1]) = len + 1

(* C10: for every non-empty carrier v, add(v, new(0)) is the same word     *)
(* sequence as truncate(v).                                                *)
C10_AddZero ==
    Returned("add") /\ call.arg = new(Zero) => held[1] = truncate(call.self)

\* new(0) was added to a carrier that truncate shortens.
C10_Witness ==
    /\ Returned("add") /\ call.arg = new(Zero)
    /\ Len(call.self) = 3 /\ Len(held[1]) = 2

(* C11: for every non-empty carrier v, canonical or not, the most negative *)
(* value of its width included, sub(v, v) represents 0 and is the one-word *)
(* sequence [0x00000000].                                                  *)
C11_SubSelf ==
    call.op = "sub" /\ call.arg = call.self =>
        /\ ~panicked /\ held = <<new(Zero)>>
        /\ Value(held[1]) = IntZero

\* The most negative value of three words was subtracted from itself.
C11_Witness ==
    /\ Returned("sub") /\ call.arg = call.self
    /\ call.self = <<SIGN_MASK, Zero, Zero>>

(* C12: for every non-empty carrier v,                                     *)
(* truncate(two_complement(two_complement(v))) is the same word sequence   *)
(* as truncate(v).                                                         *)
C12_DoubleNegation ==
    Returned("two_complement") =>
        truncate(two_complement(held[1])) = truncate(call.self)

\* A carrier that is not canonical was negated, and its negation has more words
\* than its canonical form.
C12_Witness ==
    /\ Returned("two_complement")
    /\ Len(truncate(call.self)) = 1 /\ Len(call.self) = 3 /\ Len(held[1]) = 2

(* C13: addition is commutative: for all non-empty a and b, add(a, b) and  *)
(* add(b, a) represent the same integer and are the same word sequence.    *)
C13_AddCommutes ==
    Returned("add") =>
        /\ add_ok(call.arg, call.self)
        /\ add(call.arg, call.self) = held[1]
        /\ Value(add(call.arg, call.self)) = Value(held[1])

\* Operands of different lengths and signs were added, with a last carry.
C13_Witness ==
    /\ Returned("add")
    /\ Len(call.self) = 1 /\ Len(call.arg) = 3
    /\ IsNegative(call.self) /\ ~IsNegative(call.arg)
    /\ Popped(call.self, call.arg)

\* The third operands of the sums of three.
ThirdInputs == {new(n) : n \in Words}

(* C14: addition is associative: for all non-empty a, b and c,             *)
(* add(add(a, b), c) and add(a, add(b, c)) represent the same integer.     *)
C14_AddAssociates ==
    Returned("add") =>
        \A c \in ThirdInputs :
            Value(add(held[1], c)) = Value(add(call.self, add(call.arg, c)))

(* C15: truncation is idempotent: for every non-empty carrier v,           *)
(* truncate(truncate(v)) is the same word sequence as truncate(v).         *)
C15_TruncateIdempotent ==
    Returned("truncate") => truncate(held[1]) = held[1]

\* truncate dropped two words.
C15_Witness ==
    /\ Returned("truncate")
    /\ Len(call.self) = 3 /\ Len(held[1]) = 1

(* C16: sign_extension called with a target length smaller than the        *)
(* number of words halts execution and never returns a BigInt, in          *)
(* particular never one with the wrong length or the wrong words.          *)
C16_SignExtensionShort ==
    call.op = "sign_extension" /\ call.len < Len(call.self) =>
        panicked /\ held = <<>>

\* sign_extension was called on three words with a target of one.
C16_Witness ==
    /\ call.op = "sign_extension" /\ Len(call.self) = 3 /\ call.len = 1
    /\ panicked

\* The word a group of hexadecimal digits reads as.
HexValue(c) == CHOOSE d \in 0..15 : HexDigits[d + 1] = c

RECURSIVE HexNumber(_)
HexNumber(group) ==
    IF group = <<>> THEN 0
    ELSE 16 * HexNumber(SubSeq(group, 1, Len(group) - 1)) + HexValue(group[Len(group)])

HexWord(group) ==
    <<HexNumber(SubSeq(group, 1, Len(group) - 4)),
      HexNumber(SubSeq(group, Len(group) - 3, Len(group)))>>

(* C17: the hexadecimal rendering of a BigInt with n words is exactly 8 n  *)
(* hex digits, the i-th group of 8 digits being the zero-padded value of   *)
(* the i-th word, most significant first; hence two word sequences render  *)
(* identically iff they are equal, and a non-canonical representation      *)
(* renders differently from its truncated form.                            *)
C17_Display ==
    call.op = "fmt" =>
        /\ ~panicked /\ held = <<call.self>>
        /\ Len(text) = 8 * Len(call.self)
        /\ \A i \in 1..Len(text) : text[i] \in {HexDigits[d] : d \in 1..16}
        /\ \A i \in 1..Len(call.self) :
               HexWord(SubSeq(text, 8 * (i - 1) + 1, 8 * i)) = call.self[i]
        /\ \A other \in LargeInputs : (fmt(other) = text) <=> (other = call.self)
        /\ truncate(call.self) # call.self => fmt(truncate(call.self)) # text

\* A carrier that is not canonical, with a word that needs padding, was formatted.
C17_Witness ==
    /\ call.op = "fmt"
    /\ call.self = <<Zero, Zero, I32_MAX>>
    /\ Len(text) = 24

----------------------------------------------------------------------------
(* MockStorage.                                                            *)
(* A usize is a natural number below 2^64, written like the magnitude of   *)
(* an integer above: in base 2^16, least significant digit first, without  *)
(* leading zeros.  An addition or a subtraction that leaves this range     *)
(* panics in a build with overflow checks and wraps modulo 2^64 in a build *)
(* without them.                                                           *)

\* The 16-bit digits of a usize (64-bit target).
UsizeDigits == 4

USIZE_MAX == [i \in 1..UsizeDigits |-> Half - 1]

\* The usize n, for n below 2^16.
usize(n) == IF n = 0 THEN <<>> ELSE <<n>>

\* x modulo 2^64
usize_wrap(x) == Strip(IF Len(x) > UsizeDigits THEN SubSeq(x, 1, UsizeDigits) ELSE x)

\* x + y leaves the range of usize.
add_overflows(x, y) == Len(NatAdd(x, y)) > UsizeDigits

\* x + y, wrapping.
usize_add(x, y) == usize_wrap(NatAdd(x, y))

\* x - y leaves the range of usize.
sub_overflows(x, y) == NatLess(x, y)

\* x - y, wrapping.
usize_sub(x, y) == Strip(NatSubFrom([i \in 1..UsizeDigits |-> Digit(x, i)], y, 1, 0))

saturating_sub(x, y) == IF NatLess(x, y) THEN <<>> ELSE NatSub(x, y)

\* The sum of the sizes of the files named in names, as a natural number.
RECURSIVE total_size(_, _)
total_size(f, names) ==
    IF names = {} THEN <<>>
    ELSE LET name == CHOOSE name \in names : TRUE
         IN  NatAdd(f[name], total_size(f, names \ {name}))

\* files.values().sum() leaves the range of usize: the sizes are not negative, so
\* some partial sum does exactly when the whole sum does, in whichever order the
\* map yields them.
sum_overflows(f) == Len(total_size(f, DOMAIN f)) > UsizeDigits

\* files.values().sum(), wrapping.
sum(f) == usize_wrap(total_size(f, DOMAIN f))

space_required(f, name, size) ==
    IF name \in DOMAIN f THEN saturating_sub(size, f[name]) ELSE size

\* current_used + space_required > self.capacity, wrapping.
upload_rejects(f, cap, name, size) ==
    NatLess(cap, usize_add(sum(f), space_required(f, name, size)))

\* No overflow check fires in upload.
upload_ok(f, cap, name, size) ==
    /\ ~sum_overflows(f)
    /\ ~add_overflows(sum(f), space_required(f, name, size))
    /\ upload_rejects(f, cap, name, size) =>
           /\ ~sub_overflows(cap, sum(f))
           /\ ~sub_overflows(space_required(f, name, size), usize_sub(cap, sum(f)))

\* space_required - (self.capacity - current_used), wrapping.
upload_err(f, cap, name, size) ==
    usize_sub(space_required(f, name, size), usize_sub(cap, sum(f)))

\* files.insert(name.to_string(), size)
insert(f, name, size) ==
    [n \in DOMAIN f \cup {name} |-> IF n = name THEN size ELSE f[n]]

Names == {"a", "b"}

Sizes == {usize(n) : n \in 0..MaxSize} \cup {USIZE_MAX}

Capacities == {usize(n) : n \in 0..MaxCapacity} \cup {USIZE_MAX}

\* What a call that returns the usize n returns.
Returns(n) == [kind |-> "Ok", value |-> n]

\* A storage was created and no call on it has panicked.
StorageCallable == storage_call.op # "none" /\ ~storage_panicked

\* let storage = MockStorage::new(c), in a build with or without overflow checks
StorageNew ==
    /\ storage_call.op = "none"
    /\ \E c \in Capacities, checks \in BOOLEAN :
        /\ capacity' = c
        /\ overflow_checks' = checks
        /\ storage_call' = [NoStorageCall EXCEPT !.op = "new", !.size = c]
    /\ files' = [name \in {} |-> <<>>]
    /\ UNCHANGED <<storage_panicked, bigintVars, graphVars, subgraphVars, enumerateVars, listVars>>

\* storage.upload(name, size)
Upload ==
    /\ StorageCallable
    /\ \E name \in Names, size \in Sizes :
        LET called == [op |-> "upload", name |-> name, size |-> size, before |-> files,
                       result |-> [kind |-> "Ok", value |-> <<>>]]
        IN  IF overflow_checks /\ ~upload_ok(files, capacity, name, size)
            THEN /\ storage_panicked' = TRUE
                 /\ storage_call' = [called EXCEPT !.result.kind = "panic"]
                 /\ UNCHANGED files
            ELSE IF upload_rejects(files, capacity, name, size)
            THEN /\ storage_call' =
                        [called EXCEPT !.result =
                            [kind |-> "Err", value |-> upload_err(files, capacity, name, size)]]
                 /\ UNCHANGED <<files, storage_panicked>>
            ELSE /\ files' = insert(files, name, size)
                 /\ storage_call' = called
                 /\ UNCHANGED storage_panicked
    /\ UNCHANGED <<capacity, overflow_checks, bigintVars, graphVars, subgraphVars, enumerateVars, listVars>>

\* storage.used()
Used ==
    /\ StorageCallable
    /\ storage_call.op # "used"
    /\ IF overflow_checks /\ sum_overflows(files)
       THEN /\ storage_panicked' = TRUE
            /\ storage_call' = [NoStorageCall EXCEPT !.op = "used", !.before = files,
                                                     !.result.kind = "panic"]
       ELSE /\ storage_call' = [NoStorageCall EXCEPT !.op = "used", !.before = files,
                                                     !.result = Returns(sum(files))]
            /\ UNCHANGED storage_panicked
    /\ UNCHANGED <<files, capacity, overflow_checks, bigintVars, graphVars, subgraphVars, enumerateVars, listVars>>

\* storage.capacity()
Capacity ==
    /\ StorageCallable
    /\ storage_call.op # "capacity"
    /\ storage_call' = [NoStorageCall EXCEPT !.op = "capacity", !.before = files,
                                             !.result = Returns(capacity)]
    /\ UNCHANGED <<files, capacity, overflow_checks, storage_panicked, bigintVars, graphVars, subgraphVars, enumerateVars, listVars>>

StorageNext ==
    \/ StorageNew
    \/ Upload
    \/ Used
    \/ Capacity

SpecStorage == Init /\ [][StorageNext]_vars

\* x <= y, for natural numbers
NatLessEq(x, y) == ~NatLess(y, x)

(* C18: after any sequence of upload calls on a storage created with       *)
(* capacity C, the sum of the sizes of the stored files is at most C, and  *)
(* so is what used() returns.                                              *)
C18_Quota ==
    storage_call.op # "none" =>
        /\ NatLessEq(total_size(files, DOMAIN files), capacity)
        /\ storage_call.op = "used" /\ storage_call.result.kind = "Ok" =>
               NatLessEq(storage_call.result.value, capacity)

\* The sum of the sizes once the file of the last upload has replaced the file of
\* its name, as a natural number.
TotalAfter ==
    total_size(insert(storage_call.before, storage_call.name, storage_call.size),
               DOMAIN storage_call.before \cup {storage_call.name})

(* C19: upload(name, size) succeeds iff the total size after replacing any *)
(* file of that name does not exceed the capacity; on success the entry of *)
(* name has the new size and every other file is unchanged; on failure it  *)
(* returns Err(k), k being the units by which the required space exceeds   *)
(* the free space, and the stored files are unchanged.                     *)
C19_Upload ==
    storage_call.op = "upload" =>
        /\ storage_call.result.kind \in {"Ok", "Err"}
        /\ storage_call.result.kind = "Ok" <=> NatLessEq(TotalAfter, capacity)
        /\ storage_call.result.kind = "Ok" =>
               files = insert(storage_call.before, storage_call.name, storage_call.size)
        /\ storage_call.result.kind = "Err" =>
               /\ files = storage_call.before
               /\ storage_call.result.value = NatSub(TotalAfter, capacity)

----------------------------------------------------------------------------
(* NodeHandle.                                                             *)
(* A node is an allocation, Rc<RefCell<Node>>: nodes[n] is the Node of the *)
(* n-th allocation, and a NodeHandle is the number n of its node.  Every   *)
(* borrow of a call ends before the next one of the same call begins, so   *)
(* no call fails on a borrow, whichever handles it is given.               *)

\* Node::new(value)
Node_new(value) == [id |-> value, adjacent |-> {}]

\* self.node.borrow_mut().adjacent.contains(&to_id)
contains(ns, self, to) == ns[to].id \in ns[self].adjacent

\* The nodes after self.add_edge(to).
add_edge(ns, self, to) ==
    IF contains(ns, self, to) THEN ns
    ELSE [ns EXCEPT ![self].adjacent = @ \cup {ns[to].id}]

\* The nodes after self.remove_edge(&to).
remove_edge(ns, self, to) ==
    IF contains(ns, self, to) THEN [ns EXCEPT ![self].adjacent = @ \ {ns[to].id}]
    ELSE ns

\* The nodes after self.clear_edges().
clear_edges(ns, self) == [ns EXCEPT ![self].adjacent = {}]

Values == 1..MaxValue

Handles == 1..Len(nodes)

\* let n = NodeHandle::new(value)
NewNode ==
    /\ Len(nodes) < MaxNodes
    /\ \E value \in Values :
        nodes' = Append(nodes, Node_new(value))
    /\ graph_call' = [NoGraphCall EXCEPT !.op = "new", !.self = Len(nodes) + 1]
    /\ UNCHANGED <<edges, bigintVars, storageVars, subgraphVars, enumerateVars, listVars>>

\* self.add_edge(to.clone()): Ok(false) when contains, Ok(true) otherwise
AddEdge ==
    \E self \in Handles, to \in Handles :
        /\ Cardinality(edges \cup {<<self, to>>}) <= MaxEdges
        /\ nodes' = add_edge(nodes, self, to)
        /\ edges' = edges \cup {<<self, to>>}
        /\ graph_call' = [op |-> "add_edge", self |-> self, to |-> to,
                          existed |-> <<self, to>> \in edges,
                          result |-> <<~contains(nodes, self, to)>>]
        /\ UNCHANGED <<bigintVars, storageVars, subgraphVars, enumerateVars, listVars>>

\* self.remove_edge(&to): Ok(true) when contains, Ok(false) otherwise
RemoveEdge ==
    \E self \in Handles, to \in Handles :
        /\ nodes' = remove_edge(nodes, self, to)
        /\ edges' = edges \ {<<self, to>>}
        /\ graph_call' = [op |-> "remove_edge", self |-> self, to |-> to,
                          existed |-> <<self, to>> \in edges,
                          result |-> <<contains(nodes, self, to)>>]
        /\ UNCHANGED <<bigintVars, storageVars, subgraphVars, enumerateVars, listVars>>

\* self.clear_edges()
ClearEdges ==
    \E self \in Handles :
        /\ nodes' = clear_edges(nodes, self)
        /\ edges' = {e \in edges : e[1] # self}
        /\ graph_call' = [NoGraphCall EXCEPT !.op = "clear_edges", !.self = self]
        /\ UNCHANGED <<bigintVars, storageVars, subgraphVars, enumerateVars, listVars>>

GraphNext ==
    \/ NewNode
    \/ AddEdge
    \/ RemoveEdge
    \/ ClearEdges

SpecGraph == Init /\ [][GraphNext]_vars

(* C20: for any nodes created with NodeHandle::new, distinct nodes of      *)
(* equal values included, a.add_edge(b) returns Ok(false) iff an edge from *)
(* a to b exists, and otherwise returns Ok(true) and adds that edge;       *)
(* a.remove_edge(b) returns Ok(true) iff an edge from a to b existed, and  *)
(* removes only that edge: so node a has b adjacent exactly when the edge  *)
(* from a to b was added and not removed since.                            *)
C20_Edges ==
    /\ graph_call.op = "add_edge" => (graph_call.result = <<FALSE>> <=> graph_call.existed)
    /\ graph_call.op = "remove_edge" => (graph_call.result = <<TRUE>> <=> graph_call.existed)
    /\ \A a \in Handles, b \in Handles : contains(nodes, a, b) <=> <<a, b>> \in edges

----------------------------------------------------------------------------
(* SubGraph.                                                               *)
(* The subgraph exists from the start, as SubGraph::new() makes it: with   *)
(* no handles and an empty node_set.                                       *)

\* self.handles and self.node_set after self.add_node(node), for the id of node.
add_node(hs, id, node) ==
    IF id \in DOMAIN hs THEN hs
    ELSE [i \in DOMAIN hs \cup {id} |-> IF i = id THEN node ELSE hs[i]]

\* self.handles after self.remove_node(&node), for the id of node.
remove_node(hs, id) == [i \in DOMAIN hs \ {id} |-> hs[i]]

\* The next id a map or a set yields: the order of a HashMap or a HashSet is
\* arbitrary, ascending or descending here.
Yields(ids, ascending) ==
    CHOOSE id \in ids : \A other \in ids : IF ascending THEN id <= other ELSE id >= other

\* status.insert(id, visit_status)
insert_status(status, id, visit_status) ==
    [i \in DOMAIN status \cup {id} |-> IF i = id THEN visit_status ELSE status[i]]

\* has_cycle(node_id, status): what it returns and the status it leaves;
\* visit_adjacent is its loop over the adjacent ids not yet visited, todo.
RECURSIVE has_cycle(_, _, _, _, _)
RECURSIVE visit_adjacent(_, _, _, _, _)
has_cycle(ns, hs, node_id, status, ascending) ==
    IF node_id \in DOMAIN status /\ status[node_id] = "Visiting"
    THEN [found |-> TRUE, status |-> status]
    ELSE IF node_id \in DOMAIN status /\ status[node_id] = "Visited"
    THEN [found |-> FALSE, status |-> status]
    ELSE LET visiting == insert_status(status, node_id, "Visiting")
             visited ==
                 IF node_id \in DOMAIN hs
                 THEN visit_adjacent(ns, hs, ns[hs[node_id]].adjacent, visiting, ascending)
                 ELSE [found |-> FALSE, status |-> visiting]
         IN  IF visited.found THEN visited
             ELSE [found |-> FALSE,
                   status |-> insert_status(visited.status, node_id, "Visited")]

visit_adjacent(ns, hs, todo, status, ascending) ==
    IF todo = {} THEN [found |-> FALSE, status |-> status]
    ELSE LET adj_node_id == Yields(todo, ascending)
         IN  IF adj_node_id \in DOMAIN hs
             THEN LET visited == has_cycle(ns, hs, adj_node_id, status, ascending)
                  IN  IF visited.found THEN visited
                      ELSE visit_adjacent(ns, hs, todo \ {adj_node_id}, visited.status, ascending)
             ELSE visit_adjacent(ns, hs, todo \ {adj_node_id}, status, ascending)

\* The second loop of detect_cycle, over the keys not yet checked, todo.
RECURSIVE check_each(_, _, _, _, _)
check_each(ns, hs, todo, status, ascending) ==
    IF todo = {} THEN FALSE
    ELSE LET node_id == Yields(todo, ascending)
         IN  IF status[node_id] = "Unvisited"
             THEN LET visited == has_cycle(ns, hs, node_id, status, ascending)
                  IN  \/ visited.found
                      \/ check_each(ns, hs, todo \ {node_id}, visited.status, ascending)
             ELSE check_each(ns, hs, todo \ {node_id}, status, ascending)

\* self.detect_cycle()
detect_cycle(ns, hs, ascending) ==
    check_each(ns, hs, DOMAIN hs, [id \in DOMAIN hs |-> "Unvisited"], ascending)

\* subgraph.add_node(node.clone())
AddNode ==
    \E node \in Handles :
        /\ handles' = add_node(handles, nodes[node].id, node)
        /\ node_set' = node_set \cup {nodes[node].id}
        /\ graph_call' = [NoGraphCall EXCEPT !.op = "add_node", !.self = node,
                                             !.result = <<nodes[node].id \notin DOMAIN handles>>]
        /\ UNCHANGED <<nodes, edges, bigintVars, storageVars, enumerateVars, listVars>>

\* subgraph.remove_node(&node)
RemoveNode ==
    \E node \in Handles :
        /\ handles' = remove_node(handles, nodes[node].id)
        /\ node_set' = IF nodes[node].id \in DOMAIN handles
                       THEN node_set \ {nodes[node].id} ELSE node_set
        /\ graph_call' = [NoGraphCall EXCEPT !.op = "remove_node", !.self = node,
                                             !.result = <<nodes[node].id \in DOMAIN handles>>]
        /\ UNCHANGED <<nodes, edges, bigintVars, storageVars, enumerateVars, listVars>>

\* subgraph.detect_cycle()
DetectCycle ==
    /\ graph_call.op # "detect_cycle"
    /\ \E ascending \in BOOLEAN :
        graph_call' = [NoGraphCall EXCEPT !.op = "detect_cycle",
                                          !.result = <<detect_cycle(nodes, handles, ascending)>>]
    /\ UNCHANGED <<nodes, edges, subgraphVars, bigintVars, storageVars, enumerateVars, listVars>>

SubGraphNext ==
    \/ NewNode
    \/ AddEdge
    \/ RemoveEdge
    \/ ClearEdges
    \/ AddNode
    \/ RemoveNode
    \/ DetectCycle

SpecSubGraph == Init /\ [][SubGraphNext]_vars

\* The nodes the subgraph holds.
Members == {handles[id] : id \in DOMAIN handles}

\* The nodes reached from the nodes of from by edges between members.
RECURSIVE Reached(_)
Reached(from) ==
    LET more == from \cup {e[2] : e \in {e \in edges : e[1] \in from /\ e[2] \in Members}}
    IN  IF more = from THEN from ELSE Reached(more)

\* Some member is reached from itself by one edge or more between members.
Cyclic ==
    \E n \in Members :
        n \in Reached({e[2] : e \in {e \in edges : e[1] = n /\ e[2] \in Members}})

(* C21: detect_cycle returns true iff the directed graph induced on the    *)
(* nodes in the subgraph (edges to nodes outside it ignored, self-loops    *)
(* counted) contains a cycle, after any sequence of add_node, remove_node, *)
(* add_edge, remove_edge and clear_edges.                                  *)
C21_DetectCycle ==
    graph_call.op = "detect_cycle" => (graph_call.result = <<TRUE>> <=> Cyclic)

----------------------------------------------------------------------------
(* Enumerate.                                                              *)
(* The underlying iterator is the iterator of a vector: it yields the      *)
(* elements in order and None from then on.  An Option is written <<>>     *)
(* (None) or <<v>> (Some(v)).  At the start the Enumerate of the empty     *)
(* vector exists; my_enumerate makes the one of another vector.            *)

\* self.iter.next(): what it returns.
iter_next(it) == IF it = <<>> THEN <<>> ELSE <<Head(it)>>

\* self.iter after self.iter.next().
iter_rest(it) == IF it = <<>> THEN <<>> ELSE Tail(it)

\* Enumerate::next: what it returns, with iter and cur as it leaves them.  The
\* element of the first self.iter.next() is bound to iter_rc and not used.
enumerate_next(it, c) ==
    LET item == iter_next(iter_rest(it))
    IN  IF item # <<>>
        THEN [rc |-> <<<<c, item[1]>>>>, iter |-> iter_rest(iter_rest(it)), cur |-> c + 1]
        ELSE [rc |-> <<>>, iter |-> iter_rest(iter_rest(it)), cur |-> c]

Items == {"x", "y", "z"}

Sources == UNION {[1..n -> Items] : n \in 0..MaxItems}

\* let e = xs.into_iter().my_enumerate()
MyEnumerate ==
    /\ source = <<>> /\ yielded = <<>>
    /\ \E xs \in Sources :
        /\ source' = xs
        /\ iter' = xs
    /\ cur' = 0
    /\ UNCHANGED <<yielded, bigintVars, storageVars, graphVars, subgraphVars, listVars>>

\* e.next(), called until it has returned None, and once more
EnumerateNext ==
    /\ IF Len(yielded) < 2 THEN TRUE ELSE yielded[Len(yielded) - 1] # <<>>
    /\ yielded' = Append(yielded, enumerate_next(iter, cur).rc)
    /\ iter' = enumerate_next(iter, cur).iter
    /\ cur' = enumerate_next(iter, cur).cur
    /\ UNCHANGED <<source, bigintVars, storageVars, graphVars, subgraphVars, listVars>>

EnumerateSteps ==
    \/ MyEnumerate
    \/ EnumerateNext

SpecEnumerate == Init /\ [][EnumerateSteps]_vars

(* C22: my_enumerate over an iterator yielding x0, ..., x(n-1) yields      *)
(* (0, x0), ..., (n-1, x(n-1)) in order and then None: the k-th call of    *)
(* next returns the k-th element with its position, and None after the     *)
(* last.                                                                   *)
C22_Enumerate ==
    \A k \in 1..Len(yielded) :
        yielded[k] = IF k <= Len(source) THEN <<<<k - 1, source[k]>>>> ELSE <<>>

----------------------------------------------------------------------------
(* More on BigInt. *)

\* The carry of a + b + c out of 32 bits, for words a and b and c in {0, 1}.
CarryOut(a, b, c) == (a[1] + b[1] + ((a[2] + b[2] + c) \div Half)) \div Half

\* The operands of the last add, as its loop reads them.
LoopLen == Max(Len(call.self), Len(call.arg)) + 1

(* C23: in the word loop of add, for every word pair (a, b) and every      *)
(* incoming carry c in {0, 1}, the outgoing carry is 1 iff a + b + c >=    *)
(* 2^32, the case a = b = 0xFFFFFFFF with c = 1 included.                  *)
C23_Carry ==
    call.op = "add" =>
        \A i \in 1..LoopLen, c \in {0, 1} :
            LET a == sign_extension(call.self, LoopLen)[i]
                b == sign_extension(call.arg, LoopLen)[i]
            IN  add_word(a, b, c).carry = CarryOut(a, b, c)

(* C24: for every non-empty word sequence v, two_complement(v) represents  *)
(* exactly -value(v) and is canonical.                                     *)
C24_Negation ==
    call.op = "two_complement" =>
        /\ ~panicked /\ held # <<>>
        /\ Value(held[1]) = IntNeg(Value(call.self))
        /\ Canonical(held[1])

\* A non-canonical negative value was negated: the result is shorter and positive.
C24_Witness ==
    /\ Returned("two_complement")
    /\ call.self = <<U32_MAX, SIGN_MASK, Zero>>
    /\ held[1] = <<Zero, SIGN_MASK, Zero>>

\* [0x80000000, 0, ..., 0], of n words
MostNegative(n) == [i \in 1..n |-> IF i = 1 THEN SIGN_MASK ELSE Zero]

(* C25: negating the most negative value of a width grows the              *)
(* representation: two_complement of the n-word [0x80000000, 0, ..., 0] is *)
(* the (n+1)-word [0x00000000, 0x80000000, 0, ..., 0], which is            *)
(* +2^(32n-1), not the same negative value again.                          *)
C25_MostNegative ==
    call.op = "two_complement" /\ call.self = MostNegative(Len(call.self)) =>
        /\ ~panicked
        /\ held = <<<<Zero>> \o call.self>>
        /\ Value(held[1]) = [neg |-> FALSE, mag |-> Value(call.self).mag]

\* The most negative value of the longest carriers was negated.
C25_Witness ==
    /\ Returned("two_complement")
    /\ call.self = MostNegative(MaxLen)
    /\ Len(held[1]) = MaxLen + 1

\* The rule: drop the leading word while more than one word remains, the leading
\* word is a sign-fill word and the top bit of the next word equals its top bit.
RECURSIVE DropLeading(_)
DropLeading(v) ==
    IF Len(v) > 1 /\ v[1] \in {Zero, U32_MAX} /\ TopBit(v[2]) = TopBit(v[1])
    THEN DropLeading(Tail(v))
    ELSE v

(* C26: the truncate loop removes exactly the words the rule removes: for  *)
(* every non-empty v, truncate(v) is v after dropping the leading word     *)
(* repeatedly while more than one word remains, the leading word is        *)
(* 0x00000000 or 0xFFFFFFFF and the top bit of the next word equals the    *)
(* top bit of the leading word; a single word is always kept.              *)
C26_TruncateRule ==
    call.op = "truncate" =>
        /\ ~panicked
        /\ held = <<DropLeading(call.self)>>

\* Sign-fill words were removed up to a word that is no sign-fill word.
C26_Witness ==
    /\ Returned("truncate")
    /\ call.self = <<Zero, Zero, I32_MAX>>
    /\ held[1] = <<I32_MAX>>

(* C27: for all non-empty a and b, the result of add(a, b) has at least 1  *)
(* and at most max(len(a), len(b)) + 1 words.                              *)
C27_AddLength ==
    call.op = "add" =>
        /\ ~panicked /\ held # <<>>
        /\ Len(held[1]) >= 1
        /\ Len(held[1]) <= Max(Len(call.self), Len(call.arg)) + 1

\* The sum of two longest positive carriers took one word more.
C27_Witness ==
    /\ Returned("add")
    /\ Len(call.self) = MaxLen /\ Len(call.arg) = MaxLen
    /\ Len(held[1]) = MaxLen + 1

\* All the words the loop of the last add computed, most significant first.
LoopWords ==
    reverse(add_loop(sign_extension(call.self, LoopLen),
                     sign_extension(call.arg, LoopLen), 1, 0, <<>>).result)

(* C28: in add, whenever the word loop finishes with carry = 1 and the     *)
(* most significant (guard) word is removed before truncation, the removed *)
(* word is a redundant sign-extension word: the remaining words represent  *)
(* the same integer as all the computed words.                             *)
C28_PoppedWordRedundant ==
    call.op = "add" /\ Popped(call.self, call.arg) =>
        /\ LoopWords[1] \in {Zero, U32_MAX}
        /\ Value(add_result(call.self, call.arg)) = Value(LoopWords)

\* The operands with up to one more sign-extension word.
Extended(v) == {sign_extension(v, Len(v)), sign_extension(v, Len(v) + 1)}

(* C29: add and sub depend only on the integers their operands represent:  *)
(* for all non-empty a and b, add(a, b) is the word sequence               *)
(* add(truncate(a), truncate(b)), likewise for sub, and for operands       *)
(* sign-extended by extra words.                                           *)
C29_RepresentationIndependent ==
    /\ Returned("add") =>
           /\ held[1] = add(truncate(call.self), truncate(call.arg))
           /\ \A a \in Extended(call.self), b \in Extended(call.arg) : held[1] = add(a, b)
    /\ Returned("sub") =>
           /\ held[1] = sub(truncate(call.self), truncate(call.arg))
           /\ \A a \in Extended(call.self), b \in Extended(call.arg) : held[1] = sub(a, b)

----------------------------------------------------------------------------
(* SinglyLinkedList.                                                       *)
(* The list exists from the start, as SinglyLinkedList::new() makes it.    *)
(* An Option is written <<>> (None) or <<v>> (Some(v)), a Box as what it   *)
(* holds.                                                                  *)

\* Node::new(value), of linked_list.rs
ListNode_new(value) == [value |-> value, next |-> <<>>]

\* self.head after self.push_front(value).
push_front(h, value) == <<[value |-> value, next |-> h]>>

\* The loop of push_back from current on: what current is once the loop has ended.
RECURSIVE push_back_loop(_, _)
push_back_loop(current, value) ==
    IF current = <<>> THEN <<ListNode_new(value)>>
    ELSE <<[current[1] EXCEPT !.next = push_back_loop(@, value)]>>

\* self.head after self.push_back(value).
push_back(h, value) ==
    IF h = <<>> THEN <<ListNode_new(value)>>
    ELSE <<[h[1] EXCEPT !.next = push_back_loop(@, value)]>>

\* self.pop_front(): what it returns and self.head as it leaves it.
pop_front(h) ==
    IF h = <<>> THEN [rc |-> <<>>, head |-> <<>>]
    ELSE [rc |-> <<h[1].value>>, head |-> h[1].next]

\* The loop of pop_back taking the node after cursor (cur) without walking on.
pop_back_loop_first(cursor) ==
    [rc |-> <<cursor.next[1].value>>, node |-> [cursor EXCEPT !.next = <<>>]]

\* The loop of pop_back from cursor (cur) on: what it returns and cursor as it leaves it.
RECURSIVE pop_back_loop(_)
pop_back_loop(cursor) ==
    IF cursor.next # <<>> /\ cursor.next[1].next = <<>>
    THEN [rc |-> <<cursor.next[1].value>>, node |-> [cursor EXCEPT !.next = <<>>]]
    ELSE LET popped == pop_back_loop(cursor.next[1])
         IN  [rc |-> popped.rc, node |-> [cursor EXCEPT !.next = <<popped.node>>]]

\* self.pop_back(): what it returns and self.head as it leaves it.
pop_back(h) ==
    IF h = <<>> THEN [rc |-> <<>>, head |-> <<>>]
    ELSE IF h[1].next = <<>> THEN [rc |-> <<h[1].value>>, head |-> <<>>]
    ELSE [rc |-> pop_back_loop(h[1]).rc, head |-> <<pop_back_loop(h[1]).node>>]

\* from_vec: push_front of the items of vec from the i-th down to the first.
RECURSIVE from_vec_loop(_, _, _)
from_vec_loop(h, vec, i) ==
    IF i = 0 THEN h ELSE from_vec_loop(push_front(h, vec[i]), vec, i - 1)

from_vec(vec) == from_vec_loop(<<>>, vec, Len(vec))

\* into_vec: the loop of pop_front, v being the vector so far.
RECURSIVE into_vec_loop(_, _)
into_vec_loop(h, v) ==
    IF pop_front(h).rc = <<>> THEN v
    ELSE into_vec_loop(pop_front(h).head, Append(v, pop_front(h).rc[1]))

into_vec(h) == into_vec_loop(h, <<>>)

\* The while loop of length.
RECURSIVE length_loop(_, _)
length_loop(current, count) ==
    IF current = <<>> THEN count ELSE length_loop(current[1].next, count + 1)

length(h) ==
    IF h = <<>> THEN 0
    ELSE IF h[1].next = <<>> THEN 1
    ELSE length_loop(h[1].next[1].next, 2)

Vectors == UNION {[1..n -> Items] : n \in 0..MaxList}

\* The list has not been moved into into_vec.
ListCallable == list_call.op # "into_vec"

Called(op, value, rc) == [op |-> op, value |-> value, before |-> reference, rc |-> rc]

\* let list = SinglyLinkedList::from_vec(vec), in place of new()
FromVec ==
    /\ list_call.op = "new"
    /\ \E vec \in Vectors \ {<<>>} :
        /\ head' = from_vec(vec)
        /\ reference' = vec
        /\ list_call' = [op |-> "from_vec", value |-> "", before |-> vec, rc |-> <<>>]
    /\ UNCHANGED <<bigintVars, storageVars, graphVars, subgraphVars, enumerateVars>>

\* list.push_front(value)
PushFront ==
    /\ ListCallable
    /\ Len(reference) < MaxList
    /\ \E value \in Items :
        /\ head' = push_front(head, value)
        /\ reference' = <<value>> \o reference
        /\ list_call' = Called("push_front", value, <<>>)
    /\ UNCHANGED <<bigintVars, storageVars, graphVars, subgraphVars, enumerateVars>>

\* list.push_back(value)
PushBack ==
    /\ ListCallable
    /\ Len(reference) < MaxList
    /\ \E value \in Items :
        /\ head' = push_back(head, value)
        /\ reference' = Append(reference, value)
        /\ list_call' = Called("push_back", value, <<>>)
    /\ UNCHANGED <<bigintVars, storageVars, graphVars, subgraphVars, enumerateVars>>

\* list.pop_front()
PopFront ==
    /\ ListCallable
    /\ head' = pop_front(head).head
    /\ reference' = IF reference = <<>> THEN <<>> ELSE Tail(reference)
    /\ list_call' = Called("pop_front", "", pop_front(head).rc)
    /\ UNCHANGED <<bigintVars, storageVars, graphVars, subgraphVars, enumerateVars>>

\* list.pop_back()
PopBack ==
    /\ ListCallable
    /\ head' = pop_back(head).head
    /\ reference' = IF reference = <<>> THEN <<>>
                    ELSE SubSeq(reference, 1, Len(reference) - 1)
    /\ list_call' = Called("pop_back", "", pop_back(head).rc)
    /\ UNCHANGED <<bigintVars, storageVars, graphVars, subgraphVars, enumerateVars>>

\* list.length()
Length ==
    /\ ListCallable
    /\ list_call.op # "length"
    /\ list_call' = Called("length", "", <<length(head)>>)
    /\ UNCHANGED <<head, reference, bigintVars, storageVars, graphVars, subgraphVars,
                   enumerateVars>>

\* list.into_vec(): the list is moved and is no more
IntoVec ==
    /\ ListCallable
    /\ list_call' = Called("into_vec", "", into_vec(head))
    /\ head' = <<>>
    /\ reference' = <<>>
    /\ UNCHANGED <<bigintVars, storageVars, graphVars, subgraphVars, enumerateVars>>

ListNext ==
    \/ FromVec
    \/ PushFront
    \/ PushBack
    \/ PopFront
    \/ PopBack
    \/ Length
    \/ IntoVec

SpecList == Init /\ [][ListNext]_vars

(* C30: SinglyLinkedList behaves as a double-ended sequence: after any     *)
(* sequence of push_front, push_back, pop_front and pop_back from new(),   *)
(* the contents of the list, as into_vec returns them, are those of the    *)
(* reference sequence, each pop returns the element the reference returns  *)
(* (None when empty), and length() is the number of elements.              *)
C30_ListIsDeque ==
    /\ into_vec(head) = reference
    /\ length(head) = Len(reference)
    /\ list_call.op = "pop_front" =>
           list_call.rc = IF list_call.before = <<>> THEN <<>>
                          ELSE <<Head(list_call.before)>>
    /\ list_call.op = "pop_back" =>
           list_call.rc = IF list_call.before = <<>> THEN <<>>
                          ELSE <<list_call.before[Len(list_call.before)]>>
    /\ list_call.op = "length" => list_call.rc = <<Len(reference)>>
    /\ list_call.op = "into_vec" => list_call.rc = list_call.before

\* pop_back walked to the end of a list of three elements and returned the last.
C30_Witness ==
    /\ list_call.op = "pop_back"
    /\ list_call.before = <<"x", "y", "z">>
    /\ list_call.rc = <<"z">>
    /\ into_vec(head) = <<"x", "y">>

====
